---- MODULE Spec2Model ----
(***************************************************************************)
(* Model of the key-value synchronization engine of expo-use-storage-state *)
(* (src/src/useKeyValueStorage.ts) and of its Publisher (the Publisher     *)
(* source is the tail of src/README.md, lines 109-141).                    *)
(*                                                                         *)
(* One hook instance (an "attachment") owns React state, three refs        *)
(* (prevRef, queueRef, opRef) and one effect closure (listener + initial   *)
(* load).  Every backend call is split in three steps: the call is issued  *)
(* by JS, the backend serves it (commit or fault), and the awaiting        *)
(* continuation runs later in the JS thread.                               *)
(***************************************************************************)
EXTENDS Integers, Sequences, FiniteSets, TLC

VARIABLES
  isWeb,        \* Platform.OS === 'web'
  store,        \* backend name -> key -> raw text (NullRaw = absent)
  subscribers,  \* Publisher.subscribers: a map key -> list of listeners
  status,       \* hook lifecycle: "new", "mounted", "unmounted"
  hkey,         \* the key prop of each hook
  useSecure,    \* the useSecure option of each hook
  state,        \* React state of each hook {isLoading, error, value}
  prevRef,      \* prevRef.current of each hook
  opRef,        \* opRef.current of each hook
  queueRef,     \* the tasks chained on queueRef.current, in call order
  loads,        \* initial-load closures of each hook (one per effect run)
  oneShots,     \* calls of keyValueStorage / secureKeyValueStorage set, remove
  reported,     \* errors passed to reportError by each hook
  issued,       \* backend write/erase calls issued by each hook's tasks
  pubs,         \* notifySubscribers calls made by each hook's tasks
  calls         \* the listener calls made by the latest notifySubscribers

vars == << isWeb, store, subscribers, status, hkey, useSecure, state, prevRef,
           opRef, queueRef, loads, oneShots, reported, issued, pubs, calls >>

(***************************************************************************)
(* Bounds                                                                  *)
(***************************************************************************)
NumHooks == 2
MaxOps == 2
MaxOneShots == 1
MaxSwitches == 1

Hooks == 1..NumHooks

(***************************************************************************)
(* Values.  Typed values are JSON numbers; NullV is the typed null and     *)
(* Circular stands for an object JSON.stringify throws on.  Raw values are *)
(* texts; NullRaw is the raw null and Undefined a missing argument.        *)
(***************************************************************************)
NullV == 0
Circular == 3
Vals == {1, 2}
NullRaw == "<null>"
Undefined == "<undefined>"
FaultRaw == "<fault>"
Corrupt == "not-json"
Keys == {"k", "1"}
RawTexts == {"1", "2", Corrupt}
Backends == {"localStorage", "SecureStore", "AsyncStorage"}

\* a JSON.stringify that never throws
CanStringifyAll(v) == TRUE

\* JSON.stringify on the typed values of the model
CanStringify(v) == v \in Vals
Stringify(v) == CASE v = 1 -> "1" [] v = 2 -> "2" [] OTHER -> Undefined

\* JSON.parse on the texts of the model (throws on everything else)
CanParse(s) == s \in {"1", "2"}
Parse(s) == CASE s = "1" -> 1 [] s = "2" -> 2 [] OTHER -> NullV

(***************************************************************************)
(* Errors                                                                  *)
(***************************************************************************)
\* an error carries {operation kind, key, cause}; cause names the fault it wraps
NoError == [kind |-> "none", key |-> "", cause |-> "none"]
StorageError(kind, k) ==
  [kind |-> kind, key |-> k,
   cause |-> CASE kind = "parse" -> "SyntaxError"
               [] kind = "stringify" -> "TypeError"
               [] OTHER -> "none"]
\* the untyped fault an underlying store throws
RawFault == [kind |-> "raw", key |-> "", cause |-> "none"]
TypedKinds == {"read", "write", "delete", "parse", "stringify", "generic"}

toStorageError(e, k) ==
  IF e.kind \in TypedKinds THEN e
  ELSE [StorageError("generic", k) EXCEPT !.cause = e.kind]

\* a backend used without the wrapper: the fault of the store passes through
withStorageErrorHandlingNone(call, k, cause) == cause

\* the typed error the wrapped backend throws when the call of the underlying
\* store throws the fault cause
withStorageErrorHandling(call, k, cause) ==
  CASE call = "getItem" -> [StorageError("read", k) EXCEPT !.cause = cause.kind]
    [] call = "setItem" -> [StorageError("write", k) EXCEPT !.cause = cause.kind]
    [] call = "removeItem" -> [StorageError("delete", k) EXCEPT !.cause = cause.kind]

\* a selection that ignores the secure flag
pickBackendGeneral(secure) ==
  IF isWeb THEN "localStorage" ELSE "AsyncStorage"

pickBackend(secure) ==
  IF isWeb THEN "localStorage"
  ELSE IF secure THEN "SecureStore" ELSE "AsyncStorage"

(***************************************************************************)
(* Publisher                                                               *)
(***************************************************************************)
Listener(h, k) == [hook |-> h, key |-> k]

ListenersOf(subs, event) ==
  IF event \in DOMAIN subs THEN subs[event] ELSE << >>

subscribe(subs, event, l) ==
  [e \in DOMAIN subs \cup {event} |->
     IF e = event THEN Append(ListenersOf(subs, event), l) ELSE subs[e]]

FilterOut(s, l) == SelectSeq(s, LAMBDA fn : fn # l)

\* an unsubscribe that always stores the filtered list
unsubscribeKeepsEntry(subs, event, l) ==
  [e \in DOMAIN subs \cup {event} |->
     IF e = event THEN FilterOut(ListenersOf(subs, event), l) ELSE subs[e]]

unsubscribe(subs, event, l) ==
  IF Len(FilterOut(ListenersOf(subs, event), l)) = 0
  THEN [e \in DOMAIN subs \ {event} |-> subs[e]]
  ELSE [e \in DOMAIN subs \cup {event} |->
          IF e = event THEN FilterOut(ListenersOf(subs, event), l) ELSE subs[e]]

\* the (changedKey, rawValue) a listener receives from fn.apply(undefined, args)
ArgAt(args, i) == IF i <= Len(args) THEN args[i] ELSE Undefined

(***************************************************************************)
(* React state                                                             *)
(***************************************************************************)
StateOf(l, e, v) == [isLoading |-> l, error |-> e, value |-> v]
InitialState == StateOf(TRUE, NoError, NullV)

\* world: the part of the model a handler writes through setState/reportError
\* w = [state |-> ..., reported |-> ..., calls |-> ...]; calls collects the
\* fn.apply(undefined, args) made by the handler
setState(w, h, s) ==
  IF status[h] = "unmounted" THEN w
  ELSE [w EXCEPT !.state[h] = s]

\* an error sink that is never called
reportErrorNever(w, h, e) == w

reportError(w, h, e) == [w EXCEPT !.reported[h] = Append(@, e)]

\* the listener of hook h for key k, called with (changedKey, rawValue)
listener(w, l, changedKey, rawValue) ==
  IF changedKey # l.key THEN w
  ELSE IF rawValue = NullRaw
       THEN setState(w, l.hook, StateOf(FALSE, NoError, NullV))
       ELSE IF CanParse(rawValue)
            THEN setState(w, l.hook, StateOf(FALSE, NoError, Parse(rawValue)))
            ELSE setState(reportError(w, l.hook, StorageError("parse", l.key)),
                          l.hook,
                          StateOf(FALSE, StorageError("parse", l.key), NullV))

\* a loop that stops after the first listener
forEachFirstOnly(w, listeners, args) ==
  IF listeners = << >> THEN w
  ELSE listener([w EXCEPT !.calls = Append(@, [fn |-> Head(listeners),
                                               args |-> args])],
                Head(listeners), ArgAt(args, 1), ArgAt(args, 2))

RECURSIVE forEach(_, _, _)
forEach(w, listeners, args) ==
  IF listeners = << >> THEN w
  ELSE forEach(listener([w EXCEPT !.calls = Append(@, [fn |-> Head(listeners),
                                                        args |-> args])],
                        Head(listeners), ArgAt(args, 1), ArgAt(args, 2)),
               Tail(listeners), args)

\* notifySubscribers(event, ...args)
notifySubscribers(w, event, args) ==
  forEach(w, ListenersOf(subscribers, event), args)

World == [state |-> state, reported |-> reported, calls |-> << >>]


(***************************************************************************)
(* Records                                                                 *)
(***************************************************************************)
Settled == {"resolved", "rejected"}

\* att: the effect run (index in loads) whose key and backend the call closes over
\* sup: a later setValue call had been made when the task was rejected
Task(op, k, b, v, prev, before, att) ==
  [op |-> op, key |-> k, b |-> b, value |-> v, prev |-> prev,
   before |-> before, att |-> att, st |-> "queued", err |-> NoError,
   sup |-> FALSE]

Load(k, b, sub) ==
  [key |-> k, b |-> b, mounted |-> TRUE, st |-> "issued", res |-> NullRaw,
   sub |-> sub, during |-> Undefined, cleanup |-> "none"]

\* res: what a get returns to its caller; pub: the notifySubscribers calls made
OneShot(secure, call, k, raw) ==
  [secure |-> secure, b |-> pickBackend(secure), call |-> call, key |-> k,
   raw |-> raw, st |-> "issued", err |-> NoError, res |-> Undefined,
   pub |-> << >>]

Registered(subs, l) ==
  \E i \in 1..Len(ListenersOf(subs, l.key)) : ListenersOf(subs, l.key)[i] = l

\* a write/erase committed to (b, k) by a task or a one-shot call is seen by every initial read of (b, k) still in flight
NoteCommit(ls, b, k, raw) ==
  [h \in Hooks |->
     [i \in 1..Len(ls[h]) |->
        IF ls[h][i].st \in {"issued", "served"} /\ ls[h][i].b = b
           /\ ls[h][i].key = k
        THEN [ls[h][i] EXCEPT !.during = raw] ELSE ls[h][i]]]

(***************************************************************************)
(* Init                                                                    *)
(***************************************************************************)
\* the (key, pre-seeded raw text) pairs a run starts from
Seeds == {<< "k", NullRaw >>, << "k", "2" >>, << "k", Corrupt >>, << "1", "2" >>}

Init ==
  /\ isWeb = FALSE
  /\ \E seed \in Seeds :
       /\ store = [b \in Backends |-> [k \in Keys |-> seed[2]]]
       /\ hkey = [h \in Hooks |-> seed[1]]
  /\ subscribers = << >>
  /\ status = [h \in Hooks |-> "new"]
  /\ useSecure = [h \in Hooks |-> FALSE]
  /\ state = [h \in Hooks |-> InitialState]
  /\ prevRef = [h \in Hooks |-> NullV]
  /\ opRef = [h \in Hooks |-> 0]
  /\ queueRef = [h \in Hooks |-> << >>]
  /\ loads = [h \in Hooks |-> << >>]
  /\ oneShots = << >>
  /\ reported = [h \in Hooks |-> << >>]
  /\ issued = [h \in Hooks |-> << >>]
  /\ pubs = [h \in Hooks |-> << >>]
  /\ calls = << >>

(***************************************************************************)
(* Attach: the effect of useKeyValueStorage                                *)
(***************************************************************************)
\* an effect that issues the initial read before it subscribes
RegistryBeforeSubscribe(subs, event, l) == subs

\* the registry as the initial read is issued: with the listener subscribed
RegistryAtLoad(subs, event, l) == subscribe(subs, event, l)

\* the effect body: subscribe, then issue the initial read
Mount(h) ==
  /\ status[h] = "new"
  /\ status' = [status EXCEPT ![h] = "mounted"]
  /\ LET l == Listener(h, hkey[h])
     IN /\ subscribers' = subscribe(subscribers, hkey[h], l)
        /\ loads' = [loads EXCEPT ![h] =
             Append(@, Load(hkey[h], pickBackend(useSecure[h]),
                            Registered(RegistryAtLoad(subscribers, hkey[h], l), l)))]
  /\ UNCHANGED << isWeb, calls, store, hkey, useSecure, state, prevRef, opRef,
                  queueRef, oneShots, reported, issued, pubs >>

\* the backend serves the initial read: the stored text, or a fault
LoadServe(h, i) ==
  /\ i \in 1..Len(loads[h])
  /\ loads[h][i].st = "issued"
  /\ \E ok \in BOOLEAN :
       loads' = [loads EXCEPT ![h][i].st = "served",
                   ![h][i].res = IF ok THEN store[loads[h][i].b][loads[h][i].key]
                                 ELSE FaultRaw]
  /\ UNCHANGED << isWeb, calls, store, subscribers, status, hkey, useSecure, state,
                  prevRef, opRef, queueRef, oneShots, reported, issued, pubs >>

\* an initial load that reports a read fault without storing it in state
LoadResultDropsFault(w, h, ld) ==
  IF ld.res = FaultRaw
  THEN reportError(w, h, toStorageError(withStorageErrorHandling("getItem", ld.key, RawFault), ld.key))
  ELSE IF ~ld.mounted THEN w
  ELSE IF ld.res = NullRaw THEN setState(w, h, StateOf(FALSE, NoError, NullV))
  ELSE IF CanParse(ld.res)
       THEN setState(w, h, StateOf(FALSE, NoError, Parse(ld.res)))
       ELSE setState(reportError(w, h, StorageError("parse", ld.key)), h,
                     StateOf(FALSE, StorageError("parse", ld.key), NullV))

\* what the initial load does to state/reported once getItem has settled
LoadResult(w, h, ld) ==
  IF ld.res = FaultRaw
  THEN LET err == toStorageError(withStorageErrorHandling("getItem", ld.key, RawFault), ld.key)
       IN IF ld.mounted
          THEN setState(reportError(w, h, err), h, StateOf(FALSE, err, NullV))
          ELSE reportError(w, h, err)
  ELSE IF ~ld.mounted THEN w
  ELSE IF ld.res = NullRaw THEN setState(w, h, StateOf(FALSE, NoError, NullV))
  ELSE IF CanParse(ld.res)
       THEN setState(w, h, StateOf(FALSE, NoError, Parse(ld.res)))
       ELSE setState(reportError(w, h, StorageError("parse", ld.key)), h,
                     StateOf(FALSE, StorageError("parse", ld.key), NullV))

\* a parse-failure path that leaves the corrupt entry in place
LoadCleanupNever(ld) == "none"

\* the best-effort cleanup is issued exactly on the parse-failure path
LoadCleanup(ld) ==
  IF ld.res # FaultRaw /\ ld.mounted /\ ld.res # NullRaw /\ ~CanParse(ld.res)
  THEN "issued" ELSE "none"

LoadSettle(h, i) ==
  /\ i \in 1..Len(loads[h])
  /\ loads[h][i].st = "served"
  /\ LET w == LoadResult(World, h, loads[h][i])
     IN /\ state' = w.state
        /\ reported' = w.reported
  /\ loads' = [loads EXCEPT ![h][i].st = "settled",
                            ![h][i].cleanup = LoadCleanup(loads[h][i])]
  /\ UNCHANGED << isWeb, calls, store, subscribers, status, hkey, useSecure,
                  prevRef, opRef, queueRef, oneShots, issued, pubs >>

\* a cleanup whose failure is reported to the error sink
CleanupCatchReports(w, h, e) == reportError(w, h, toStorageError(e, e.key))

\* .catch(() => {}): the fault of the cleanup erase is discarded
CleanupCatch(w, h, e) == w

\* the backend serves backend.removeItem(key).catch(() => {})
CleanupServe(h, i) ==
  /\ i \in 1..Len(loads[h])
  /\ loads[h][i].cleanup = "issued"
  /\ \E ok \in BOOLEAN :
       IF ok
       THEN /\ store' = [store EXCEPT ![loads[h][i].b][loads[h][i].key] = NullRaw]
            /\ loads' = [loads EXCEPT ![h][i].cleanup = "ok"]
            /\ UNCHANGED << state, reported >>
       ELSE LET w == CleanupCatch(World, h,
                       withStorageErrorHandling("removeItem", loads[h][i].key, RawFault))
            IN /\ store' = store
               /\ loads' = [loads EXCEPT ![h][i].cleanup = "failed"]
               /\ state' = w.state
               /\ reported' = w.reported
  /\ UNCHANGED << isWeb, calls, subscribers, status, hkey, useSecure, prevRef,
                  opRef, queueRef, oneShots, issued, pubs >>

\* an effect cleanup that also drops the tasks that have not started
UnmountCancels(h) ==
  /\ status[h] = "mounted"
  /\ status' = [status EXCEPT ![h] = "unmounted"]
  /\ loads' = [loads EXCEPT ![h][Len(loads[h])].mounted = FALSE]
  /\ subscribers' = unsubscribe(subscribers, hkey[h], Listener(h, hkey[h]))
  /\ queueRef' = [queueRef EXCEPT ![h] = SelectSeq(@, LAMBDA t : t.st # "queued")]
  /\ UNCHANGED << isWeb, calls, store, hkey, useSecure, state, prevRef, opRef,
                  oneShots, reported, issued, pubs >>

\* effect cleanup on unmount
Unmount(h) ==
  /\ status[h] = "mounted"
  /\ status' = [status EXCEPT ![h] = "unmounted"]
  /\ loads' = [loads EXCEPT ![h][Len(loads[h])].mounted = FALSE]
  /\ subscribers' = unsubscribe(subscribers, hkey[h], Listener(h, hkey[h]))
  /\ UNCHANGED << isWeb, calls, store, hkey, useSecure, state, prevRef, opRef,
                  queueRef, oneShots, reported, issued, pubs >>

\* the hook is rendered with another key: the render commits (the prevRef
\* effect sees the current value), the cleanup of the attach effect runs for
\* the old key, then the effect body runs for the new key
SwitchKey(h, k) ==
  /\ status[h] = "mounted"
  /\ k # hkey[h]
  /\ Len(loads[h]) <= MaxSwitches
  /\ hkey' = [hkey EXCEPT ![h] = k]
  /\ prevRef' = [prevRef EXCEPT ![h] = state[h].value]
  /\ LET old == Listener(h, hkey[h])
         l == Listener(h, k)
         subs == unsubscribe(subscribers, hkey[h], old)
     IN /\ subscribers' = subscribe(subs, k, l)
        /\ loads' = [loads EXCEPT ![h] =
             Append([@ EXCEPT ![Len(@)].mounted = FALSE],
                    Load(k, pickBackend(useSecure[h]),
                         Registered(RegistryAtLoad(subs, k, l), l)))]
  /\ UNCHANGED << isWeb, calls, store, status, useSecure, state, opRef, queueRef,
                  oneShots, reported, issued, pubs >>

\* a committed render runs the effect prevRef.current = state.value
Render(h) ==
  /\ status[h] = "mounted"
  /\ prevRef[h] # state[h].value
  /\ prevRef' = [prevRef EXCEPT ![h] = state[h].value]
  /\ UNCHANGED << isWeb, calls, store, subscribers, status, hkey, useSecure, state,
                  opRef, queueRef, loads, oneShots, reported, issued, pubs >>


(***************************************************************************)
(* Mutate: setValue and its queued task                                    *)
(***************************************************************************)
RECURSIVE SumOps(_)
SumOps(hs) ==
  IF hs = {} THEN 0
  ELSE LET h == CHOOSE x \in hs : TRUE IN opRef[h] + SumOps(hs \ {h})

\* setValue calls made so far, over all hooks
TotalOps == SumOps(Hooks)

\* an optimistic update that only replaces the value
OptimisticValueOnly(s, v) == [s EXCEPT !.value = v]

\* an optimistic update that shows the write as loading
OptimisticLoading(s, v) == StateOf(TRUE, NoError, v)

\* the optimistic state of setValue(value)
Optimistic(s, v) == StateOf(FALSE, NoError, v)

\* setValue(value): snapshot prevRef, bump opRef, optimistic setState, chain
setValue(h, v) ==
  /\ status[h] = "mounted"
  /\ TotalOps < MaxOps
  /\ opRef' = [opRef EXCEPT ![h] = @ + 1]
  /\ state' = setState(World, h, Optimistic(state[h], v)).state
  /\ queueRef' = [queueRef EXCEPT ![h] =
       Append(@, Task(opRef[h] + 1, hkey[h], pickBackend(useSecure[h]), v,
                      prevRef[h], state[h], Len(loads[h])))]
  /\ UNCHANGED << isWeb, calls, store, subscribers, status, hkey, useSecure, prevRef,
                  loads, oneShots, reported, issued, pubs >>

\* a queue that does not chain: every task runs as soon as it is submitted
ChainedNever(q, i) == TRUE

\* queueRef.current.then(task): a task runs only after a fulfilled one
ChainedOnFulfil(q, i) == IF i = 1 THEN TRUE ELSE q[i - 1].st = "resolved"

\* queueRef.current.then(task, task): task i runs once task i-1 has settled,
\* fulfilled or rejected
Chained(q, i) == IF i = 1 THEN TRUE ELSE q[i - 1].st \in Settled

\* a catch block that rolls back whatever was called since
RollbackAlways(h, t) == TRUE

\* only roll back if no newer setValue call was made since this one started
RollbackAllowed(h, t) == opRef[h] = t.op

\* the catch block of the task
catch(w, h, t, e) ==
  LET err == toStorageError(e, t.key)
      w1 == reportError(w, h, err)
  IN IF RollbackAllowed(h, t)
     THEN setState(w1, h, StateOf(FALSE, err, t.prev))
     ELSE setState(w1, h, [w1.state[h] EXCEPT !.error = err])

\* a catch block that swallows the fault instead of re-throwing it
TaskOutcomeSwallowed(faulted) == "resolved"

\* how the promise of the task settles: `throw err` at the end of the catch
\* block rejects it, a completed try block fulfils it
TaskOutcome(faulted) == IF faulted THEN "rejected" ELSE "resolved"

\* the task starts: erase, or stringify and write; a stringify fault is
\* caught at once, before any backend call
StartTask(h, i) ==
  /\ i \in 1..Len(queueRef[h])
  /\ queueRef[h][i].st = "queued"
  /\ Chained(queueRef[h], i)
  /\ LET t == queueRef[h][i]
     IN IF t.value = NullV
        THEN /\ issued' = [issued EXCEPT ![h] =
                  Append(@, [op |-> t.op, call |-> "removeItem", raw |-> NullRaw,
                             live |-> loads[h][t.att].mounted])]
             /\ queueRef' = [queueRef EXCEPT ![h][i].st = "issued"]
             /\ UNCHANGED << state, reported >>
        ELSE IF ~CanStringify(t.value)
        THEN LET w == catch(World, h, t, StorageError("stringify", t.key))
             IN /\ state' = w.state
                /\ reported' = w.reported
                /\ queueRef' = [queueRef EXCEPT ![h][i].st = TaskOutcome(TRUE),
                     ![h][i].err = toStorageError(StorageError("stringify", t.key), t.key),
                     ![h][i].sup = opRef[h] # t.op]
                /\ UNCHANGED issued
        ELSE /\ issued' = [issued EXCEPT ![h] =
                  Append(@, [op |-> t.op, call |-> "setItem",
                             raw |-> Stringify(t.value),
                             live |-> loads[h][t.att].mounted])]
             /\ queueRef' = [queueRef EXCEPT ![h][i].st = "issued"]
             /\ UNCHANGED << state, reported >>
  /\ UNCHANGED << isWeb, calls, store, subscribers, status, hkey, useSecure, prevRef,
                  opRef, loads, oneShots, pubs >>

\* the raw value a task writes (NullRaw for an erase)
Payload(t) == IF t.value = NullV THEN NullRaw ELSE Stringify(t.value)
CallOf(t) == IF t.value = NullV THEN "removeItem" ELSE "setItem"

\* the backend serves the write/erase: commit, or fault with the store untouched
ServeTask(h, i) ==
  /\ i \in 1..Len(queueRef[h])
  /\ queueRef[h][i].st = "issued"
  /\ LET t == queueRef[h][i]
     IN \E ok \in BOOLEAN :
          IF ok
          THEN /\ store' = [store EXCEPT ![t.b][t.key] = Payload(t)]
               /\ loads' = NoteCommit(loads, t.b, t.key, Payload(t))
               /\ queueRef' = [queueRef EXCEPT ![h][i].st = "served_ok"]
          ELSE /\ queueRef' = [queueRef EXCEPT ![h][i].st = "served_fail"]
               /\ UNCHANGED << store, loads >>
  /\ UNCHANGED << isWeb, calls, subscribers, status, hkey, useSecure, state, prevRef,
                  opRef, oneShots, reported, issued, pubs >>

\* a task that publishes whatever the backend answered
CommittedOrNot(t) == t.st \in {"served_ok", "served_fail"}

\* the awaited backend call returned without throwing
Committed(t) == t.st = "served_ok"

\* the task resumes after its await: publish on success, catch on fault
SettleTask(h, i) ==
  /\ i \in 1..Len(queueRef[h])
  /\ queueRef[h][i].st \in {"served_ok", "served_fail"}
  /\ LET t == queueRef[h][i]
     IN IF Committed(t)
        THEN LET w == notifySubscribers(World, t.key, << Payload(t) >>)
             IN /\ state' = w.state
                /\ reported' = w.reported
                /\ calls' = w.calls
                /\ pubs' = [pubs EXCEPT ![h] =
                     Append(@, [op |-> t.op, key |-> t.key, raw |-> Payload(t)])]
                /\ queueRef' = [queueRef EXCEPT ![h][i].st = TaskOutcome(FALSE)]
        ELSE LET e == withStorageErrorHandling(CallOf(t), t.key, RawFault)
                 w == catch(World, h, t, e)
             IN /\ state' = w.state
                /\ reported' = w.reported
                /\ pubs' = pubs
                /\ calls' = calls
                /\ queueRef' = [queueRef EXCEPT ![h][i].st = TaskOutcome(TRUE),
                     ![h][i].err = toStorageError(e, t.key),
                     ![h][i].sup = opRef[h] # t.op]
  /\ UNCHANGED << isWeb, store, subscribers, status, hkey, useSecure, prevRef,
                  opRef, loads, oneShots, issued >>

(***************************************************************************)
(* One-shot operations: keyValueStorage / secureKeyValueStorage            *)
(***************************************************************************)
OneShotCall(secure, call, k, raw) ==
  /\ Len(oneShots) < MaxOneShots
  /\ oneShots' = Append(oneShots, OneShot(secure, call, k, raw))
  /\ UNCHANGED << isWeb, calls, store, subscribers, status, hkey, useSecure, state,
                  prevRef, opRef, queueRef, loads, reported, issued, pubs >>

\* the backend serves the call: a get reads the store, a set or remove
\* commits, and any of them may fault with the store untouched
OneShotServe(i) ==
  /\ i \in 1..Len(oneShots)
  /\ oneShots[i].st = "issued"
  /\ LET o == oneShots[i]
     IN \E ok \in BOOLEAN :
          IF ~ok
          THEN /\ oneShots' = [oneShots EXCEPT ![i].st = "served_fail"]
               /\ UNCHANGED << store, loads >>
          ELSE IF o.call = "getItem"
          THEN /\ oneShots' = [oneShots EXCEPT ![i].st = "served_ok",
                                               ![i].res = store[o.b][o.key]]
               /\ UNCHANGED << store, loads >>
          ELSE /\ store' = [store EXCEPT ![o.b][o.key] = o.raw]
               /\ loads' = NoteCommit(loads, o.b, o.key, o.raw)
               /\ oneShots' = [oneShots EXCEPT ![i].st = "served_ok"]
  /\ UNCHANGED << isWeb, calls, subscribers, status, hkey, useSecure, state, prevRef,
                  opRef, queueRef, reported, issued, pubs >>

\* a one-shot call that goes on whatever the backend answered
OneShotCommittedOrNot(o) == TRUE

\* the awaited backend call of the one-shot operation returned without throwing
OneShotCommitted(o) == o.st = "served_ok"

\* the call resumes after its await: a get returns the value, a set or remove
\* publishes; on a fault the caught error is classified and re-thrown
OneShotSettle(i) ==
  /\ i \in 1..Len(oneShots)
  /\ oneShots[i].st \in {"served_ok", "served_fail"}
  /\ LET o == oneShots[i]
     IN IF ~OneShotCommitted(o)
        THEN /\ oneShots' = [oneShots EXCEPT ![i].st = "rejected",
                  ![i].err = toStorageError(withStorageErrorHandling(o.call, o.key, RawFault), o.key)]
             /\ UNCHANGED << state, reported, calls >>
        ELSE IF o.call = "getItem"
        THEN /\ oneShots' = [oneShots EXCEPT ![i].st = "resolved"]
             /\ UNCHANGED << state, reported, calls >>
        ELSE LET w == notifySubscribers(World, o.key, << o.raw >>)
             IN /\ state' = w.state
                /\ reported' = w.reported
                /\ calls' = w.calls
                /\ oneShots' = [oneShots EXCEPT ![i].st = "resolved",
                     ![i].pub = Append(@, [key |-> o.key, raw |-> o.raw])]
  /\ UNCHANGED << isWeb, store, subscribers, status, hkey, useSecure, prevRef,
                  opRef, queueRef, loads, issued, pubs >>

(***************************************************************************)
(* Specification                                                           *)
(***************************************************************************)
MutateVals == {NullV, 1, Circular}

\* Hooks start alike (same key, same backend), so a run in which a higher
\* hook is the first to call setValue mirrors one in which a lower hook is
InOrder(h) == \A g \in Hooks : g < h => opRef[g] > 0

\* attach, load, render and Mutate on the hooks hs
Step(hs) ==
  \/ \E h \in hs : Mount(h)
  \/ \E h \in hs : \E i \in 1..Len(loads[h]) : LoadServe(h, i)
  \/ \E h \in hs : \E i \in 1..Len(loads[h]) : LoadSettle(h, i)
  \/ \E h \in hs : \E i \in 1..Len(loads[h]) : CleanupServe(h, i)
  \/ \E h \in hs : Render(h)
  \/ \E h \in hs : \E v \in MutateVals : InOrder(h) /\ setValue(h, v)
  \/ \E h \in hs : \E i \in 1..Len(queueRef[h]) : StartTask(h, i)
  \/ \E h \in hs : \E i \in 1..Len(queueRef[h]) : ServeTask(h, i)
  \/ \E h \in hs : \E i \in 1..Len(queueRef[h]) : SettleTask(h, i)

\* one attachment, from mount to unmount
Single == {1}

Next ==
  \/ Step(Single)
  \/ \E h \in Single : Unmount(h)

Spec == Init /\ [][Next]_vars

\* every backend call eventually returns or fails (the serve steps), and the
\* event loop eventually runs every continuation that is ready: the one of a
\* settled await (the settle steps) and the next link of the promise chain
\* (the start step)
Fairness ==
  /\ \A h \in Hooks : \A i \in 1..(MaxSwitches + 1) :
       /\ WF_vars(LoadServe(h, i))
       /\ WF_vars(LoadSettle(h, i))
  /\ \A h \in Hooks : \A i \in 1..MaxOps :
       /\ WF_vars(StartTask(h, i))
       /\ WF_vars(ServeTask(h, i))
       /\ WF_vars(SettleTask(h, i))

SpecLive == Init /\ [][Next]_vars /\ Fairness

\* one hook instance whose key prop changes while it is mounted
NextSwitch ==
  \/ Step(Single)
  \/ \E h \in Single : \E k \in Keys : SwitchKey(h, k)

SpecSwitch == Init /\ [][NextSwitch]_vars

\* the calls of keyValueStorage / secureKeyValueStorage a run makes:
\* get(key), set(key, rawValue), remove(key)
OneShotInputs ==
  {<< "getItem", NullRaw >>, << "setItem", "1" >>, << "setItem", Corrupt >>,
   << "removeItem", NullRaw >>}

OneShotStep ==
  \/ \E secure \in BOOLEAN : \E k \in Keys : \E inp \in OneShotInputs :
       OneShotCall(secure, inp[1], k, inp[2])
  \/ \E i \in 1..Len(oneShots) : OneShotServe(i)
  \/ \E i \in 1..Len(oneShots) : OneShotSettle(i)

\* one attachment next to callers of the one-shot operations
NextOneShot ==
  \/ Step(Single)
  \/ OneShotStep

SpecOneShot == Init /\ [][NextOneShot]_vars

\* the platforms and flags a run starts from: Platform.OS is web or not, the
\* hooks are rendered with useSecure or without; the backends hold a corrupt
\* entry, so that the load issues its cleanup erase too
InitPlatform ==
  /\ isWeb \in BOOLEAN
  /\ store = [b \in Backends |-> [k \in Keys |-> Corrupt]]
  /\ hkey = [h \in Hooks |-> "k"]
  /\ subscribers = << >>
  /\ status = [h \in Hooks |-> "new"]
  /\ \E secure \in BOOLEAN : useSecure = [h \in Hooks |-> secure]
  /\ state = [h \in Hooks |-> InitialState]
  /\ prevRef = [h \in Hooks |-> NullV]
  /\ opRef = [h \in Hooks |-> 0]
  /\ queueRef = [h \in Hooks |-> << >>]
  /\ loads = [h \in Hooks |-> << >>]
  /\ oneShots = << >>
  /\ reported = [h \in Hooks |-> << >>]
  /\ issued = [h \in Hooks |-> << >>]
  /\ pubs = [h \in Hooks |-> << >>]
  /\ calls = << >>

\* one attachment next to callers of the one-shot operations, on either
\* platform and with either flag
SpecPlatform == InitPlatform /\ [][NextOneShot]_vars

\* two hook instances
Couple == {1, 2}

\* hooks start alike, so they are mounted in the order of their numbers
Mounted(h) == \A g \in Hooks : g < h => status[g] # "new"

\* the traffic of the Publisher: hooks that attach, change key and detach
\* next to callers of the one-shot operations.  The initial reads stay in
\* flight: serving and settling them touches neither the registry nor the
\* listener calls, and enables or disables none of these steps.
NextBroker ==
  \/ \E h \in Couple : Mounted(h) /\ Mount(h)
  \/ \E h \in Couple : \E k \in Keys : SwitchKey(h, k)
  \/ \E h \in Couple : Unmount(h)
  \/ OneShotStep

SpecBroker == Init /\ [][NextBroker]_vars

\* off the browser, hook 1 is rendered with useSecure and the other hooks
\* without it, next to callers of both one-shot objects
InitMixed ==
  /\ isWeb = FALSE
  /\ \E seed \in Seeds :
       /\ store = [b \in Backends |-> [k \in Keys |-> seed[2]]]
       /\ hkey = [h \in Hooks |-> seed[1]]
  /\ subscribers = << >>
  /\ status = [h \in Hooks |-> "new"]
  /\ useSecure = [h \in Hooks |-> h = 1]
  /\ state = [h \in Hooks |-> InitialState]
  /\ prevRef = [h \in Hooks |-> NullV]
  /\ opRef = [h \in Hooks |-> 0]
  /\ queueRef = [h \in Hooks |-> << >>]
  /\ loads = [h \in Hooks |-> << >>]
  /\ oneShots = << >>
  /\ reported = [h \in Hooks |-> << >>]
  /\ issued = [h \in Hooks |-> << >>]
  /\ pubs = [h \in Hooks |-> << >>]
  /\ calls = << >>

SpecMixed == InitMixed /\ [][NextBroker]_vars

\* every hook attached to the same key, none unmounted
NextPair == Step(Hooks)

SpecPair == Init /\ [][NextPair]_vars

(***************************************************************************)
(* Properties                                                              *)
(***************************************************************************)
Tasks(h) == 1..Len(queueRef[h])

\* task i of hook h settles as rejected in this step
Rejects(h, i) ==
  /\ queueRef[h][i].st # "rejected"
  /\ queueRef'[h][i].st = "rejected"

\* task i of hook h settles as resolved in this step
Resolves(h, i) ==
  /\ queueRef[h][i].st # "resolved"
  /\ queueRef'[h][i].st = "resolved"

\* C1: on one attachment a task begins only after every earlier task has
\* settled (resolved or rejected), the backend receives the attachment's
\* writes/erases in the order of the Mutate calls, and a rejected task leaves
\* the next task able to start.
C1_InOrder ==
  \A h \in Hooks :
    /\ \A i, j \in Tasks(h) :
         (i < j /\ queueRef[h][j].st # "queued") => queueRef[h][i].st \in Settled
    /\ \A a, b \in 1..Len(issued[h]) : a < b => issued[h][a].op < issued[h][b].op
    /\ \A a \in 1..Len(issued[h]) :
         \E i \in Tasks(h) :
           /\ queueRef[h][i].op = issued[h][a].op
           /\ issued[h][a].call = CallOf(queueRef[h][i])
           /\ issued[h][a].raw = Payload(queueRef[h][i])
    /\ \A i \in Tasks(h) :
         (queueRef[h][i].st \notin {"queued", "rejected"})
           => \E a \in 1..Len(issued[h]) : issued[h][a].op = queueRef[h][i].op
    /\ \A i \in Tasks(h) :
         (i > 1 /\ queueRef[h][i].st = "queued" /\ queueRef[h][i - 1].st = "rejected")
           => ENABLED StartTask(h, i)

\* C1 witness: the first task was rejected by the backend and the second task
\* ran after it and resolved
C1_Witness ==
  \E h \in Hooks :
    /\ Len(queueRef[h]) = 2
    /\ queueRef[h][1].st = "rejected"
    /\ queueRef[h][1].err.kind \in {"write", "delete"}
    /\ queueRef[h][2].st = "resolved"
    /\ Len(issued[h]) = 2

\* C2: when a task is rejected after a later Mutate call was made on the same
\* (still attached) attachment, the failure handling sets state.error to the classified fault and
\* leaves state.value (and isLoading) as they were: no revert.
C2_Supersession ==
  [][\A h \in Hooks : \A i \in Tasks(h) :
       (Rejects(h, i) /\ opRef[h] > queueRef[h][i].op /\ status[h] = "mounted")
         => /\ state'[h] = [state[h] EXCEPT !.error = queueRef'[h][i].err]
            /\ queueRef'[h][i].err.kind \in {"write", "delete", "stringify"}]_vars

\* C2 witness: task 1 was rejected while task 2 was still queued; the error is
\* task 1's and the value is task 2's optimistic value, not the value before
\* call 1
C2_Witness ==
  \E h \in Hooks :
    /\ Len(queueRef[h]) = 2
    /\ queueRef[h][1].st = "rejected"
    /\ queueRef[h][2].st = "queued"
    /\ status[h] = "mounted"
    /\ state[h].error = queueRef[h][1].err
    /\ state[h].value = queueRef[h][2].value
    /\ state[h].value # queueRef[h][1].prev
    /\ state[h].value # queueRef[h][1].before.value


\* C3: when a task is rejected and no later Mutate call was made on the
\* (still attached) attachment, state becomes {isLoading: false, error: the classified fault,
\* value: the value state held immediately before that Mutate call}.
C3_Rollback ==
  [][\A h \in Hooks : \A i \in Tasks(h) :
       (Rejects(h, i) /\ opRef[h] = queueRef[h][i].op /\ status[h] = "mounted")
         => state'[h] = StateOf(FALSE, queueRef'[h][i].err,
                                queueRef[h][i].before.value)]_vars

\* the state a listener is meant to reach from a delivered payload
Delivered(k, raw) ==
  IF raw = NullRaw THEN StateOf(FALSE, NoError, NullV)
  ELSE IF CanParse(raw) THEN StateOf(FALSE, NoError, Parse(raw))
  ELSE StateOf(FALSE, StorageError("parse", k), NullV)

\* C4: when the task of attachment x's Mutate(v) resolves, every other
\* attachment y subscribed to the same key has state {isLoading: false,
\* error: null, value: v} after the publish.
C4_CrossBroadcast ==
  [][\A x \in Hooks : \A i \in Tasks(x) : \A y \in Hooks \ {x} :
       (Resolves(x, i) /\ Registered(subscribers, Listener(y, queueRef[x][i].key)))
         => state'[y] = StateOf(FALSE, NoError, queueRef[x][i].value)]_vars

\* C5: a Mutate(value) call leaves state {isLoading: false, error: null, value}
\* whatever the state was, and at that point no backend call of that Mutate
\* has been issued.
C5_Optimistic ==
  [][\A h \in Hooks :
       opRef'[h] # opRef[h]
         => LET t == queueRef'[h][Len(queueRef'[h])]
            IN /\ t.op = opRef'[h]
               /\ t.st = "queued"
               /\ state'[h] = StateOf(FALSE, NoError, t.value)
               /\ \A a \in 1..Len(issued'[h]) : issued'[h][a].op # t.op]_vars

\* C5 witness: Mutate was called on a Faulted attachment and its task has not
\* started; the state is the optimistic one
C5_Witness ==
  \E h \in Hooks : \E i \in Tasks(h) :
    /\ queueRef[h][i].before.error # NoError
    /\ queueRef[h][i].st = "queued"
    /\ queueRef[h][i].op = opRef[h]
    /\ state[h] = StateOf(FALSE, NoError, queueRef[h][i].value)

\* C6: a task publishes only when its backend write/erase has committed, with
\* the payload it wrote (null for an erase); a task whose serialization or
\* backend call failed has published nothing.
C6_PublishAfterCommit ==
  /\ [](\A h \in Hooks :
          /\ \A a \in 1..Len(pubs[h]) :
               \E i \in Tasks(h) :
                 /\ queueRef[h][i].op = pubs[h][a].op
                 /\ queueRef[h][i].st = "resolved"
                 /\ pubs[h][a].key = queueRef[h][i].key
                 /\ pubs[h][a].raw = Payload(queueRef[h][i])
                 /\ \E b \in 1..Len(issued[h]) :
                      /\ issued[h][b].op = pubs[h][a].op
                      /\ issued[h][b].raw = pubs[h][a].raw
          /\ \A i \in Tasks(h) :
               queueRef[h][i].st # "resolved"
                 => \A a \in 1..Len(pubs[h]) : pubs[h][a].op # queueRef[h][i].op)
  /\ [][\A h \in Hooks :
          pubs'[h] # pubs[h]
            => \E i \in Tasks(h) :
                 /\ queueRef[h][i].st = "served_ok"
                 /\ queueRef'[h][i].st = "resolved"
                 /\ pubs'[h] = Append(pubs[h],
                      [op |-> queueRef[h][i].op, key |-> queueRef[h][i].key,
                       raw |-> Payload(queueRef[h][i])])]_vars

\* C6 witness: task 1 failed at the backend and published nothing, task 2
\* committed and published its payload
C6_Witness ==
  \E h \in Hooks :
    /\ Len(queueRef[h]) = 2
    /\ queueRef[h][1].st = "rejected"
    /\ queueRef[h][2].st = "resolved"
    /\ Len(pubs[h]) = 1
    /\ pubs[h][1].op = 2
    /\ pubs[h][1].raw = Payload(queueRef[h][2])


\* every task of every hook has settled
Quiescent == \A h \in Hooks : \A i \in Tasks(h) : queueRef[h][i].st \in Settled

\* C7: a write committed by another attachment while attachment y's initial
\* read was in flight is not lost: once the read and every task have settled
\* (publishes delivered) and the backend still holds that write, y's state
\* value is the committed value.
C7_WriteNotLost ==
  \A y \in Hooks : \A i \in 1..Len(loads[y]) :
    ( /\ status[y] = "mounted"
      /\ opRef[y] = 0
      /\ loads[y][i].mounted
      /\ loads[y][i].st = "settled"
      /\ loads[y][i].cleanup = "none"
      /\ loads[y][i].during # Undefined
      /\ Quiescent
      /\ store[loads[y][i].b][loads[y][i].key] = loads[y][i].during )
    => state[y].value = Delivered(loads[y][i].key, loads[y][i].during).value

\* C8: the listener of an attachment is registered in the Publisher when its
\* initial read is issued, and stays registered while the read of the attached
\* hook is in flight.
C8_SubscribeBeforeRead ==
  \A h \in Hooks : \A i \in 1..Len(loads[h]) :
    /\ loads[h][i].sub
    /\ (loads[h][i].mounted /\ loads[h][i].st \in {"issued", "served"})
         => Registered(subscribers, Listener(h, loads[h][i].key))

\* C8 witness: an initial read is in flight with the listener registered
C8_Witness ==
  \E h \in Hooks : \E i \in 1..Len(loads[h]) :
    /\ loads[h][i].st = "issued"
    /\ loads[h][i].sub
    /\ Registered(subscribers, Listener(h, hkey[h]))

\* C9: a publish delivered to an attachment subscribed to the published key
\* overwrites its state: null gives {false, null, null}, a payload that parses
\* gives {false, null, parsed}, any other payload gives {false, ParseError, null}.
C9_DeliveryOverwrites ==
  [][\A x \in Hooks : \A i \in Tasks(x) : \A y \in Hooks :
       (Resolves(x, i) /\ Registered(subscribers, Listener(y, queueRef[x][i].key)))
         => state'[y] = Delivered(queueRef[x][i].key, Payload(queueRef[x][i]))]_vars

\* the state an initial load is meant to leave, by what getItem returned
Loaded(k, res) ==
  IF res = FaultRaw
  THEN StateOf(FALSE, [kind |-> "read", key |-> k, cause |-> "raw"], NullV)
  ELSE IF res = NullRaw THEN StateOf(FALSE, NoError, NullV)
  ELSE IF res \in {"1", "2"} THEN StateOf(FALSE, NoError, Parse(res))
  ELSE StateOf(FALSE, StorageError("parse", k), NullV)

\* C10: when the initial read of a still-attached attachment settles, state
\* becomes {false, read error, null} on a backend fault, {false, null, null}
\* when nothing is stored, {false, null, parsed} for valid JSON and
\* {false, ParseError, null} for any other text.
C10_LoadSettles ==
  [][\A h \in Hooks : \A i \in 1..Len(loads[h]) :
       (loads[h][i].st = "served" /\ loads'[h][i].st = "settled"
          /\ loads[h][i].mounted)
         => state'[h] = Loaded(loads[h][i].key, loads[h][i].res)]_vars

\* C10 witness: the initial load of an attached hook has settled on corrupt
\* text and the ParseError is in state
C10_Witness ==
  \E h \in Hooks :
    /\ loads[h] # << >>
    /\ status[h] = "mounted"
    /\ loads[h][1].st = "settled" /\ loads[h][1].res = Corrupt
    /\ state[h] = StateOf(FALSE, StorageError("parse", hkey[h]), NullV)

\* text JSON.parse rejects, as returned by a read
NotJson(res) == res \notin {FaultRaw, NullRaw, "1", "2"}

C12_CleanupFailureDiscarded ==
  [][\A h \in Hooks : \A i \in 1..Len(loads[h]) :
       (loads[h][i].cleanup = "issued" /\ loads'[h][i].cleanup = "failed")
         => /\ state' = state
            /\ reported' = reported
            /\ queueRef' = queueRef
            /\ store' = store]_vars

\* C12 witness: the cleanup erase failed; the state is still the ParseError
\* one, the ParseError is the only error reported and the corrupt text is
\* still stored
C12_Witness ==
  \E h \in Hooks :
    /\ loads[h] # << >>
    /\ loads[h][1].cleanup = "failed"
    /\ state[h] = StateOf(FALSE, StorageError("parse", loads[h][1].key), NullV)
    /\ reported[h] = << StorageError("parse", loads[h][1].key) >>
    /\ store[loads[h][1].b][loads[h][1].key] = Corrupt

\* the classified error of a fault of the task's own serialization or backend call
OwnFault(t) ==
  IF t.value = Circular
  THEN [kind |-> "stringify", key |-> t.key, cause |-> "TypeError"]
  ELSE IF t.value = NullV
       THEN [kind |-> "delete", key |-> t.key, cause |-> "raw"]
       ELSE [kind |-> "write", key |-> t.key, cause |-> "raw"]

\* the task's own serialization or backend call has faulted
OwnTaskFaulted(t) ==
  \/ t.st = "served_fail"
  \/ t.st = "queued" /\ t.value = Circular

\* C13: the promise of Mutate call i rejects exactly when call i's own task
\* faulted (serialization or backend call), with that fault's classified
\* StorageError, and resolves exactly when its own backend call committed;
\* the outcome of an earlier task of the attachment plays no part.
C13_OwnOutcome ==
  [][\A h \in Hooks : \A i \in Tasks(h) :
       LET t == queueRef[h][i]
       IN /\ Rejects(h, i)
               => /\ OwnTaskFaulted(t)
                  /\ queueRef'[h][i].err = OwnFault(t)
          /\ Resolves(h, i) => t.st = "served_ok"
          /\ (t.st \notin Settled /\ queueRef'[h][i].st \in Settled)
               => queueRef'[h][i].st =
                    IF OwnTaskFaulted(t) THEN "rejected" ELSE "resolved"]_vars

\* C13 witness: call 1 was rejected with its own stringify fault, call 2 ran
\* after it and resolved
C13_Witness ==
  \E h \in Hooks :
    /\ Len(queueRef[h]) = 2
    /\ queueRef[h][1].st = "rejected"
    /\ queueRef[h][1].err.kind = "stringify"
    /\ queueRef[h][2].st = "resolved"
    /\ queueRef[h][2].err = NoError

\* C14: whenever the promise of a Mutate call rejects, for every value passed
\* (null included), the error is a StorageWriteError or a
\* StorageStringifyError.
C14_SetterErrorKinds ==
  [][\A h \in Hooks : \A i \in Tasks(h) :
       Rejects(h, i) => queueRef'[h][i].err.kind \in {"write", "stringify"}]_vars

\* C15: when the value of a Mutate cannot be serialized, its task rejects
\* with a stringify-kind StorageError in the step in which it starts, and
\* that task issues no backend write or erase, publishes nothing and leaves
\* the backend as it was.
C15_StringifyBeforeBackend ==
  /\ [](\A h \in Hooks : \A i \in Tasks(h) :
          queueRef[h][i].value = Circular
            => /\ queueRef[h][i].st \in {"queued", "rejected"}
               /\ \A a \in 1..Len(issued[h]) : issued[h][a].op # queueRef[h][i].op
               /\ \A a \in 1..Len(pubs[h]) : pubs[h][a].op # queueRef[h][i].op)
  /\ [][\A h \in Hooks : \A i \in Tasks(h) :
          (queueRef[h][i].value = Circular /\ queueRef'[h][i].st # queueRef[h][i].st)
            => /\ queueRef'[h][i].st = "rejected"
               /\ queueRef'[h][i].err.kind = "stringify"
               /\ queueRef'[h][i].err.key = queueRef[h][i].key
               /\ issued' = issued
               /\ pubs' = pubs
               /\ store' = store]_vars

\* C15 witness: a Mutate of a value that cannot be serialized was rejected
\* with the stringify error and the attachment has issued and published
\* nothing
C15_Witness ==
  \E h \in Hooks :
    /\ Len(queueRef[h]) = 1
    /\ queueRef[h][1].value = Circular
    /\ queueRef[h][1].st = "rejected"
    /\ queueRef[h][1].err.kind = "stringify"
    /\ issued[h] = << >>
    /\ pubs[h] = << >>

\* the kind the adapter gives to a fault of a backend call
KindOfCall(call) ==
  CASE call = "getItem" -> "read"
    [] call = "setItem" -> "write"
    [] call = "removeItem" -> "delete"

\* the error a fault of the given backend call on key k is classified as
ClassifiedAs(call, k) == [kind |-> KindOfCall(call), key |-> k, cause |-> "raw"]

\* e is a typed error: an adapter error wrapping the store's fault, or a
\* parse/stringify error of the engine
TypedError(e) ==
  /\ e.key \in Keys
  /\ \/ e.kind \in {"read", "write", "delete"} /\ e.cause = "raw"
     \/ e.kind \in {"parse", "stringify"}

\* C16: a fault of the underlying store is classified by the operation that
\* raised it (read, write, delete), with the key and the fault as cause: the
\* error of a failed initial read is the read error, the promise of a Mutate
\* or of a one-shot call whose backend call failed rejects with that call's
\* error, and every error in attachment state or passed to the error sink is
\* typed.
C16_Classified ==
  /\ \A h \in Hooks :
       /\ state[h].error = NoError \/ TypedError(state[h].error)
       /\ \A a \in 1..Len(reported[h]) : TypedError(reported[h][a])
       /\ \A i \in Tasks(h) :
            LET t == queueRef[h][i]
            IN IF t.st = "rejected"
               THEN \/ t.err = ClassifiedAs(CallOf(t), t.key)
                    \/ t.err.kind = "stringify" /\ t.err.key = t.key
               ELSE t.err = NoError
       /\ \A i \in 1..Len(loads[h]) :
            (loads[h][i].st = "settled" /\ loads[h][i].res = FaultRaw)
              => \E a \in 1..Len(reported[h]) :
                   reported[h][a] = ClassifiedAs("getItem", loads[h][i].key)
  /\ \A i \in 1..Len(oneShots) :
       IF oneShots[i].st = "rejected"
       THEN oneShots[i].err = ClassifiedAs(oneShots[i].call, oneShots[i].key)
       ELSE oneShots[i].err = NoError

\* C16 witness: the initial read failed and its read error was reported, a
\* Mutate was rejected with the write error and a Mutate of null with the
\* delete error, which is in state
C16_Witness ==
  \E h \in Hooks :
    /\ Len(reported[h]) = 3
    /\ reported[h][1] = [kind |-> "read", key |-> hkey[h], cause |-> "raw"]
    /\ Len(queueRef[h]) = 2
    /\ queueRef[h][1].st = "rejected"
    /\ queueRef[h][1].err.kind = "write"
    /\ queueRef[h][2].st = "rejected"
    /\ queueRef[h][2].err.kind = "delete"
    /\ queueRef[h][2].err.cause = "raw"
    /\ state[h].error = queueRef[h][2].err

\* the attachment (effect run) a task was submitted under has been detached
Detached(h, t) == ~loads[h][t.att].mounted

\* C17: after Detach the attachment is inert: the step in which an initial
\* read of a detached attachment settles, and the step in which a Mutate task
\* of a detached attachment settles (resolved or rejected), leave the state
\* of the hook unchanged.
C17_InertAfterDetach ==
  [][\A h \in Hooks :
       /\ \A i \in 1..Len(loads[h]) :
            (loads[h][i].st = "served" /\ loads'[h][i].st = "settled"
               /\ ~loads[h][i].mounted)
              => state'[h] = state[h]
       /\ \A i \in Tasks(h) :
            (queueRef[h][i].st \notin Settled /\ queueRef'[h][i].st \in Settled
               /\ Detached(h, queueRef[h][i]))
              => state'[h] = state[h]]_vars

\* C18: Detach cancels nothing: the detaching step leaves the queue, the
\* issued backend calls and the backend untouched; on a detached attachment a
\* task whose predecessor has settled can still start, an issued call can
\* still be served and a served call can still settle; and the backend calls
\* issued after Detach follow the order of the Mutate calls.
C18_DetachKeepsWork ==
  /\ [](\A h \in Hooks :
          status[h] = "unmounted"
            => /\ \A i \in Tasks(h) :
                    LET t == queueRef[h][i]
                    IN /\ (t.st = "queued" /\ Chained(queueRef[h], i))
                            => ENABLED StartTask(h, i)
                       /\ t.st = "issued" => ENABLED ServeTask(h, i)
                       /\ t.st \in {"served_ok", "served_fail"}
                            => ENABLED SettleTask(h, i)
                       /\ (t.st # "queued" /\ t.value # Circular)
                            => \E a \in 1..Len(issued[h]) :
                                 /\ issued[h][a].op = t.op
                                 /\ issued[h][a].call = CallOf(t)
                                 /\ issued[h][a].raw = Payload(t)
               /\ opRef[h] = Len(queueRef[h])
               /\ \A a, b \in 1..Len(issued[h]) :
                    a < b => issued[h][a].op < issued[h][b].op)
  /\ [][\A h \in Hooks :
          (status[h] = "mounted" /\ status'[h] = "unmounted")
            => /\ queueRef' = queueRef
               /\ issued' = issued
               /\ store' = store]_vars

\* C18 witness: two Mutate calls were made, the hook was unmounted before
\* either backend call was issued, and both calls were issued after Detach,
\* in call order, and committed
C18_Witness ==
  \E h \in Hooks :
    /\ status[h] = "unmounted"
    /\ Len(issued[h]) = 2
    /\ ~issued[h][1].live /\ ~issued[h][2].live
    /\ issued[h][1].op = 1 /\ issued[h][2].op = 2
    /\ queueRef[h][1].st = "resolved" /\ queueRef[h][2].st = "resolved"
    /\ store[queueRef[h][2].b][queueRef[h][2].key] = Payload(queueRef[h][2])

C20_LastMutateWins ==
  \A h \in Hooks :
    ( /\ status[h] = "mounted"
      /\ queueRef[h] # << >>
      /\ \A i \in Tasks(h) : queueRef[h][i].st = "resolved"
      /\ ~queueRef[h][1].before.isLoading
      /\ \A i \in 1..Len(loads[h]) :
           loads[h][i].st = "settled" /\ loads[h][i].cleanup = "none" )
    => LET last == queueRef[h][Len(queueRef[h])]
       IN /\ state[h].value = last.value
          /\ store[last.b][last.key] = Payload(last)

\* C21: Mutate(A), then Mutate(B) called before A's task settles, on an
\* attachment whose load had settled; A's backend call fails and B's commits.
\* Once both tasks have settled the state is {isLoading: false, error: A's
\* fault, value: B's value}.
C21_SupersessionFinal ==
  \A h \in Hooks :
    ( /\ status[h] = "mounted"
      /\ Len(queueRef[h]) = 2
      /\ ~queueRef[h][1].before.isLoading
      /\ queueRef[h][1].st = "rejected"
      /\ queueRef[h][1].sup
      /\ queueRef[h][1].err.kind \in {"write", "delete"}
      /\ queueRef[h][2].st = "resolved" )
    => state[h] = StateOf(FALSE, queueRef[h][1].err, queueRef[h][2].value)

\* C22: delivering a broadcast whose payload parses to the value a subscribed
\* attachment already holds reports no error and leaves the attachment's
\* state (isLoading, error, value) unchanged.
C22_IdempotentRenotify ==
  [][\A x \in Hooks : \A i \in Tasks(x) : \A y \in Hooks :
       LET t == queueRef[x][i]
       IN ( /\ Resolves(x, i)
            /\ Registered(subscribers, Listener(y, t.key))
            /\ CanParse(Payload(t))
            /\ Parse(Payload(t)) = state[y].value )
          => /\ state'[y] = state[y]
             /\ reported'[y] = reported[y]]_vars

\* C23: a one-shot set or remove publishes (the raw value, null for a
\* remove) only in the step that follows a committed backend call, exactly
\* once; a call whose backend call failed publishes nothing, calls no
\* listener and rejects with the typed error of its operation.
C23_OneShotPublish ==
  /\ [](\A i \in 1..Len(oneShots) :
          LET o == oneShots[i]
          IN /\ o.pub # << >>
                  => /\ o.st = "resolved"
                     /\ o.call \in {"setItem", "removeItem"}
                     /\ o.pub = << [key |-> o.key,
                                    raw |-> IF o.call = "removeItem"
                                            THEN NullRaw ELSE o.raw] >>
             /\ o.st = "rejected"
                  => /\ o.pub = << >>
                     /\ o.err = ClassifiedAs(o.call, o.key)
             /\ (o.st = "resolved" /\ o.call # "getItem") => o.pub # << >>)
  /\ [][\A i \in 1..Len(oneShots) :
          LET o == oneShots[i]
          IN /\ oneShots'[i].pub # o.pub
                  => o.st = "served_ok"
             /\ (o.st = "issued" /\ oneShots'[i].st = "served_ok"
                   /\ o.call # "getItem")
                  => store'[o.b][o.key] = o.raw
             /\ (o.st = "served_fail" /\ oneShots'[i].st # o.st)
                  => /\ oneShots'[i].st = "rejected"
                     /\ calls' = calls
                     /\ state' = state]_vars

\* C23 witness: a one-shot set committed and then published its raw value
\* to the two listeners of the key
C23_Witness ==
  \E i \in 1..Len(oneShots) :
    /\ oneShots[i].call = "setItem"
    /\ oneShots[i].st = "resolved"
    /\ oneShots[i].pub = << [key |-> oneShots[i].key, raw |-> oneShots[i].raw] >>
    /\ store[oneShots[i].b][oneShots[i].key] = oneShots[i].raw
    /\ Len(calls) = 2
    /\ \A c \in 1..Len(calls) : calls[c].args = << oneShots[i].raw >>

\* C24: the attachments of one key have each called Mutate after their
\* initial load had settled; once every task has resolved (every publish made
\* and delivered), all the attachments hold the same state value.
C24_Convergence ==
  ( \A h \in Hooks :
      /\ status[h] = "mounted"
      /\ queueRef[h] # << >>
      /\ ~queueRef[h][1].before.isLoading
      /\ \A i \in Tasks(h) : queueRef[h][i].st = "resolved"
      /\ \A i \in 1..Len(loads[h]) :
           loads[h][i].st = "settled" /\ loads[h][i].cleanup # "issued" )
  => \A x, y \in Hooks : state[x].value = state[y].value

\* no key of the registry maps to an empty list of listeners
NoEmptyEntry(subs) == \A e \in DOMAIN subs : subs[e] # << >>

\* C25: in every reachable state of the Publisher no key maps to an empty
\* listener list; and from every reachable state, unsubscribing any listener
\* from any key (registered or not, the last one of its key or not) leaves no
\* empty entry, the key of a last listener being deleted.
C25_NoEmptyEntries ==
  /\ NoEmptyEntry(subscribers)
  /\ \A k \in Keys : \A h \in Hooks : \A lk \in Keys :
       LET subs == unsubscribe(subscribers, k, Listener(h, lk))
       IN /\ NoEmptyEntry(subs)
          /\ (ListenersOf(subscribers, k) = << Listener(h, lk) >>)
               => k \notin DOMAIN subs

\* C25 witness: a key had two listeners and the other key one; after two
\* removals the first key has one listener left and the other key no entry
C25_Witness ==
  /\ \E h \in Hooks : status[h] = "unmounted"
  /\ \E h \in Hooks : Len(loads[h]) = 2 /\ status[h] = "mounted"
  /\ Cardinality(DOMAIN subscribers) = 1
  /\ \A e \in DOMAIN subscribers : Len(subscribers[e]) = 1

\* C26: a publish on a key calls every listener registered for that key at
\* that moment, once each, in the order of the registry (which is the order
\* of subscription: of two hooks that never changed key, the one mounted
\* first comes first), and calls no listener of another key; the state of a
\* hook with no listener on the key is left alone.
C26_PublishOrder ==
  /\ [](\A k \in DOMAIN subscribers :
          \A a, b \in 1..Len(subscribers[k]) :
            ( /\ a < b
              /\ Len(loads[subscribers[k][a].hook]) = 1
              /\ Len(loads[subscribers[k][b].hook]) = 1 )
            => subscribers[k][a].hook < subscribers[k][b].hook)
  /\ [][\A i \in 1..Len(oneShots) :
          oneShots'[i].pub # oneShots[i].pub
            => LET o == oneShots[i]
                   ls == ListenersOf(subscribers, o.key)
               IN /\ Len(calls') = Len(ls)
                  /\ \A j \in 1..Len(ls) :
                       /\ calls'[j].fn = ls[j]
                       /\ calls'[j].fn.key = o.key
                       /\ calls'[j].args = << o.raw >>
                  /\ \A h \in Hooks :
                       ~Registered(subscribers, Listener(h, o.key))
                         => state'[h] = state[h]]_vars

\* C26 witness: a publish called the two listeners of its key, the first
\* subscribed first
C26_Witness ==
  /\ \E i \in 1..Len(oneShots) : oneShots[i].pub # << >>
  /\ Len(calls) = 2
  /\ calls[1].fn.hook = 1
  /\ calls[2].fn.hook = 2
  /\ calls[1].fn.key = calls[2].fn.key

\* the listener calls of hook h, among cs, whose payload the listener fails
\* to parse: the call passes the key filter and its raw value is neither null
\* nor valid JSON
ParseFaults(h, cs) ==
  SelectSeq(cs, LAMBDA c :
    /\ c.fn.hook = h
    /\ ArgAt(c.args, 1) = c.fn.key
    /\ ArgAt(c.args, 2) \notin {NullRaw, "1", "2"})

\* C27: every step adds to the errors reported by an attachment exactly the
\* faults it handles in that step, once each: the read fault of its initial
\* load, the parse fault of its (attached) initial load, the fault of its
\* Mutate task, one parse fault per broadcast payload its listener fails to
\* parse; any other step, the failure of the cleanup erase included, reports
\* nothing.
C27_ReportedOnce ==
  [][\A h \in Hooks :
       IF \E i \in 1..Len(loads[h]) :
            loads[h][i].st = "served" /\ loads'[h][i].st = "settled"
       THEN \A i \in 1..Len(loads[h]) :
              (loads[h][i].st = "served" /\ loads'[h][i].st = "settled")
                => reported'[h] =
                     IF loads[h][i].res = FaultRaw
                     THEN Append(reported[h], ClassifiedAs("getItem", loads[h][i].key))
                     ELSE IF loads[h][i].mounted /\ NotJson(loads[h][i].res)
                     THEN Append(reported[h],
                                 [kind |-> "parse", key |-> loads[h][i].key,
                                  cause |-> "SyntaxError"])
                     ELSE reported[h]
       ELSE IF \E i \in Tasks(h) : Rejects(h, i)
       THEN \A i \in Tasks(h) :
              Rejects(h, i) => reported'[h] = Append(reported[h], OwnFault(queueRef[h][i]))
       ELSE IF \/ \E x \in Hooks : \E i \in Tasks(x) : Resolves(x, i)
               \/ \E i \in 1..Len(oneShots) : oneShots'[i].pub # oneShots[i].pub
       THEN LET fs == ParseFaults(h, calls')
            IN reported'[h] =
                 reported[h] \o [j \in 1..Len(fs) |->
                                  [kind |-> "parse", key |-> fs[j].fn.key,
                                   cause |-> "SyntaxError"]]
       ELSE reported'[h] = reported[h]]_vars

\* C27 witness: the attachment reported the read fault of its initial load,
\* then the fault of a Mutate task, then the parse fault of a broadcast
C27_Witness ==
  \E h \in Hooks :
    /\ loads[h] # << >>
    /\ loads[h][1].res = FaultRaw
    /\ Len(reported[h]) = 3
    /\ reported[h][1].kind = "read"
    /\ reported[h][2].kind \in {"write", "delete", "stringify"}
    /\ reported[h][3].kind = "parse"
    /\ Len(calls) = 1

\* the backend the claim names for a flag on the platform of the run
Routed(secure) ==
  CASE isWeb -> "localStorage"
    [] ~isWeb /\ secure -> "SecureStore"
    [] ~isWeb /\ ~secure -> "AsyncStorage"

\* C28: every read, write and erase of an attachment or of a one-shot call
\* goes to the encrypted store when the platform is not the browser and the
\* secure flag is set, to the general store when it is not the browser and
\* the flag is unset, and to the local store on the browser; a step changes a
\* store only if it serves a write or erase routed to that store, and a read
\* returns the content of the store it is routed to.
C28_BackendSelection ==
  /\ [](/\ \A h \in Hooks :
            /\ \A i \in 1..Len(loads[h]) : loads[h][i].b = Routed(useSecure[h])
            /\ \A i \in Tasks(h) :
                 queueRef[h][i].b = Routed(useSecure[h])
         /\ \A i \in 1..Len(oneShots) : oneShots[i].b = Routed(oneShots[i].secure))
  /\ [][/\ \A b \in Backends :
            store'[b] # store[b] =>
              \/ \E h \in Hooks : \E i \in Tasks(h) :
                   /\ queueRef[h][i].st = "issued"
                   /\ queueRef'[h][i].st = "served_ok"
                   /\ b = Routed(useSecure[h])
              \/ \E h \in Hooks : \E i \in 1..Len(loads[h]) :
                   /\ loads[h][i].cleanup = "issued"
                   /\ loads'[h][i].cleanup = "ok"
                   /\ b = Routed(useSecure[h])
              \/ \E i \in 1..Len(oneShots) :
                   /\ oneShots[i].st = "issued"
                   /\ oneShots'[i].st = "served_ok"
                   /\ oneShots[i].call # "getItem"
                   /\ b = Routed(oneShots[i].secure)
        /\ \A h \in Hooks : \A i \in 1..Len(loads[h]) :
             (loads[h][i].st = "issued" /\ loads'[h][i].st = "served")
               => loads'[h][i].res \in
                    {FaultRaw, store[Routed(useSecure[h])][loads[h][i].key]}
        /\ \A i \in 1..Len(oneShots) :
             (oneShots[i].st = "issued" /\ oneShots'[i].st = "served_ok"
                /\ oneShots[i].call = "getItem")
               => oneShots'[i].res =
                    store[Routed(oneShots[i].secure)][oneShots[i].key]]_vars

\* C28 witness: off the browser, a hook rendered with useSecure has written
\* the encrypted store and keyValueStorage has written the general store: the
\* two stores differ, and the local store was never touched
C28_Witness ==
  /\ ~isWeb
  /\ \E h \in Hooks : \E i \in Tasks(h) :
       /\ useSecure[h]
       /\ queueRef[h][i].st = "resolved"
       /\ queueRef[h][i].value = NullV
  /\ \E i \in 1..Len(oneShots) :
       /\ ~oneShots[i].secure
       /\ oneShots[i].call = "setItem"
       /\ oneShots[i].key = "k"
       /\ oneShots[i].raw = "1"
       /\ oneShots[i].st = "resolved"
  /\ store["SecureStore"]["k"] = NullRaw
  /\ store["AsyncStorage"]["k"] = "1"
  /\ store["localStorage"]["k"] = Corrupt

\* C29: the settling of the initial read of an attached hook and the delivery
\* of a broadcast on its key each overwrite the hook's state, whatever it
\* held: after the step the state is the one of the read result, resp. of
\* the published payload.
C29_LastProcessedWins ==
  [][\A y \in Hooks :
       /\ \A i \in 1..Len(loads[y]) :
            ( /\ loads[y][i].st = "served"
              /\ loads'[y][i].st = "settled"
              /\ loads[y][i].mounted )
            => state'[y] = Loaded(loads[y][i].key, loads[y][i].res)
       /\ \A x \in Hooks : \A i \in Tasks(x) :
            ( /\ Resolves(x, i)
              /\ Registered(subscribers, Listener(y, queueRef[x][i].key)) )
            => state'[y] = Delivered(queueRef[x][i].key, Payload(queueRef[x][i]))
       /\ \A i \in 1..Len(oneShots) :
            ( /\ oneShots[i].pub = << >>
              /\ oneShots'[i].pub # << >>
              /\ Registered(subscribers, Listener(y, oneShots[i].key)) )
            => state'[y] = Delivered(oneShots[i].key, oneShots'[i].pub[1].raw)]_vars

\* C30: when the task of an attached hook's Mutate(A) resolves, and so
\* publishes, while a later Mutate(B) of the same hook has not settled, the
\* hook's state value becomes A after that step; the step changes neither the
\* operation counter nor the other tasks of the queue.
C30_SelfNotification ==
  [][\A h \in Hooks : \A i \in Tasks(h) : \A j \in Tasks(h) :
       ( /\ Resolves(h, i)
         /\ i < j
         /\ queueRef[h][j].st \notin Settled
         /\ status[h] = "mounted"
         /\ Registered(subscribers, Listener(h, queueRef[h][i].key)) )
       => /\ state'[h].value = queueRef[h][i].value
          /\ opRef'[h] = opRef[h]
          /\ Len(queueRef'[h]) = Len(queueRef[h])
          /\ \A n \in Tasks(h) : n # i => queueRef'[h][n] = queueRef[h][n]]_vars

\* C31: a Mutate task publishes, and the registered listeners of its key are
\* called, only in the step in which the task goes from "backend call
\* returned without fault" to resolved: never before the backend has served
\* the call, never for a faulted call, and no task is resolved without its
\* publish having been made.
C31_PublishBetween ==
  /\ [](\A h \in Hooks : \A i \in Tasks(h) :
          LET t == queueRef[h][i]
              made == SelectSeq(pubs[h], LAMBDA p : p.op = t.op)
          IN /\ t.st = "resolved" => made = << [op |-> t.op, key |-> t.key,
                                                 raw |-> Payload(t)] >>
             /\ t.st # "resolved" => made = << >>)
  /\ [][(pubs' # pubs \/ calls' # calls)
           => \E h \in Hooks : \E i \in Tasks(h) :
                /\ queueRef[h][i].st = "served_ok"
                /\ queueRef'[h][i].st = "resolved"
                /\ store = store'
                /\ pubs' = [pubs EXCEPT ![h] =
                     Append(@, [op |-> queueRef[h][i].op,
                                key |-> queueRef[h][i].key,
                                raw |-> Payload(queueRef[h][i])])]
                /\ Len(calls') = Len(ListenersOf(subscribers, queueRef[h][i].key))
                /\ \A n \in 1..Len(calls') :
                     calls'[n].fn = ListenersOf(subscribers, queueRef[h][i].key)[n]]_vars

\* C31 witness: a write was committed, its task then published to the hook's
\* own listener and resolved
C31_Witness ==
  \E h \in Hooks : \E i \in Tasks(h) :
    /\ queueRef[h][i].st = "resolved"
    /\ queueRef[h][i].value = 1
    /\ store[queueRef[h][i].b][queueRef[h][i].key] = "1"
    /\ Len(pubs[h]) = 1
    /\ Len(calls) = 1
    /\ calls[1].fn.hook = h

\* C32: when every backend call returns or fails, every task queued on an
\* attachment eventually starts and settles, also behind a rejected task, and
\* an attached hook that is loading eventually stops loading or is detached.
C32_Progress ==
  /\ \A h \in Hooks : \A i \in 1..MaxOps :
       (i \in Tasks(h) /\ queueRef[h][i].st = "queued")
         ~> (i \in Tasks(h) /\ queueRef[h][i].st \in Settled)
  /\ \A h \in Hooks :
       (status[h] = "mounted" /\ state[h].isLoading)
         ~> (status[h] # "mounted" \/ ~state[h].isLoading)

\* C32 witness: the first task was rejected, the task queued behind it has
\* settled, and the initial load has settled on the attached hook
C32_Witness ==
  \E h \in Hooks :
    /\ status[h] = "mounted"
    /\ Len(queueRef[h]) = 2
    /\ queueRef[h][1].st = "rejected"
    /\ queueRef[h][2].st \in Settled
    /\ loads[h][1].st = "settled"
    /\ ~state[h].isLoading

\* the values hook h may hold that did not come from an optimistic update: the
\* initial null, the results of its settled loads, the values of the writes
\* and erases that were committed on its key, the payloads published on it
Obtained(h) ==
  {InitialState.value}
    \cup {Loaded(loads[h][i].key, loads[h][i].res).value :
            i \in {n \in 1..Len(loads[h]) : loads[h][n].st = "settled"}}
    \cup UNION {{queueRef[x][i].value :
                   i \in {n \in Tasks(x) :
                            /\ queueRef[x][n].st \in {"served_ok", "resolved"}
                            /\ queueRef[x][n].key = hkey[h]}} : x \in Hooks}
    \cup {Delivered(oneShots[i].key, oneShots[i].raw).value :
            i \in {n \in 1..Len(oneShots) :
                     /\ oneShots[n].pub # << >>
                     /\ oneShots[n].key = hkey[h]}}

\* C33: the value that the rollback of a failed Mutate puts into the state of
\* an attached hook is one that was loaded, published or committed, or the
\* initial null: never a value that only a failed Mutate had put there.
C33_RollbackToObtained ==
  [][\A h \in Hooks : \A i \in Tasks(h) :
       ( /\ Rejects(h, i)
         /\ status[h] = "mounted"
         /\ opRef[h] = queueRef[h][i].op )
       => state'[h].value \in Obtained(h)]_vars

\* C34: when the only Mutate(v) of an attached hook was called while the
\* initial read was in flight and its task resolved, then once the read has
\* settled too (without fault, no cleanup erase, no other writer) the state value is v and
\* the backend holds the text of v.
C34_MutateDuringLoad ==
  \A h \in Hooks :
    ( /\ status[h] = "mounted"
      /\ Len(loads[h]) = 1
      /\ loads[h][1].st = "settled"
      /\ loads[h][1].res # FaultRaw
      /\ loads[h][1].cleanup = "none"
      /\ Len(queueRef[h]) = 1
      /\ queueRef[h][1].before.isLoading
      /\ queueRef[h][1].st = "resolved"
      /\ \A x \in Hooks \ {h} : queueRef[x] = << >>
      /\ oneShots = << >> )
    => /\ store[queueRef[h][1].b][queueRef[h][1].key] = Payload(queueRef[h][1])
       /\ state[h].value = queueRef[h][1].value

\* C35: once the initial read of an attached hook has settled without fault
\* or cleanup, every Mutate task and every one-shot call has resolved (each
\* write and erase committed, each publish delivered) and the backend holds
\* null or valid JSON under the hook's key, the hook's state value is the
\* parsed value the backend holds.
C35_SettledMatchesBackend ==
  \A h \in Hooks :
    ( /\ status[h] = "mounted"
      /\ Len(loads[h]) = 1
      /\ loads[h][1].st = "settled"
      /\ loads[h][1].res # FaultRaw
      /\ loads[h][1].cleanup = "none"
      /\ \A x \in Hooks : \A i \in Tasks(x) : queueRef[x][i].st = "resolved"
      /\ \A i \in 1..Len(oneShots) : oneShots[i].st = "resolved"
      /\ store[loads[h][1].b][hkey[h]] \in {NullRaw, "1", "2"} )
    => state[h].value = Delivered(hkey[h], store[loads[h][1].b][hkey[h]]).value

\* C36: the step in which the backend serves the cleanup erase of a load
\* removes the corrupt text that the load had read, or finds the entry already
\* erased: never a value committed under the key since the read.
C36_CleanupKeepsWrites ==
  [][\A h \in Hooks : \A i \in 1..Len(loads[h]) :
       (loads[h][i].cleanup = "issued" /\ loads'[h][i].cleanup = "ok")
         => store[loads[h][i].b][loads[h][i].key] \in {loads[h][i].res, NullRaw}]_vars

\* C37: off the browser, a publish made for a write or erase committed to one
\* store calls no listener of a hook that is backed by the other store, and
\* leaves the state of such a hook unchanged.
C37_BackendIsolation ==
  [][~isWeb =>
      \A y \in Hooks :
        /\ \A i \in 1..Len(oneShots) :
             ( /\ oneShots[i].pub = << >>
               /\ oneShots'[i].pub # << >>
               /\ oneShots[i].b # Routed(useSecure[y]) )
             => /\ state'[y] = state[y]
                /\ \A n \in 1..Len(calls') : calls'[n].fn.hook # y
        /\ \A x \in Hooks : \A i \in Tasks(x) :
             ( /\ Resolves(x, i)
               /\ queueRef[x][i].b # Routed(useSecure[y]) )
             => /\ state'[y] = state[y]
                /\ \A n \in 1..Len(calls') : calls'[n].fn.hook # y]_vars

\* the step is a step of an operation on key k: a load or its cleanup, a
\* Mutate task, or a one-shot call (its publish included) on k advances
OperationOn(k) ==
  \/ \E x \in Hooks : \E i \in 1..Len(loads[x]) :
       /\ loads[x][i].key = k
       /\ \/ loads'[x][i].st # loads[x][i].st
          \/ loads'[x][i].cleanup # loads[x][i].cleanup
  \/ \E x \in Hooks : \E i \in Tasks(x) :
       /\ queueRef[x][i].key = k
       /\ queueRef'[x][i].st # queueRef[x][i].st
  \/ \E i \in 1..Len(oneShots) :
       /\ oneShots[i].key = k
       /\ oneShots'[i].st # oneShots[i].st

\* C38: a step of a load, a Mutate task or a one-shot operation on a key,
\* its publish included, changes neither the state of an attached hook that
\* observes another key nor what any backend holds under that other key.
C38_KeyIsolation ==
  [][\A y \in Hooks : \A k \in Keys :
       ( /\ status[y] = "mounted"
         /\ k # hkey[y]
         /\ OperationOn(k) )
       => /\ state'[y] = state[y]
          /\ \A b \in Backends : store'[b][hkey[y]] = store[b][hkey[y]]]_vars

\* C39: the step in which a Mutate task resolves and its publish is delivered
\* sets no error on any hook and reports none: afterwards each hook's error is
\* null or the error it had before, and nothing was added to the error sink.
C39_NoErrorFromOwnPublish ==
  [][\A x \in Hooks : \A i \in Tasks(x) :
       Resolves(x, i)
         => \A y \in Hooks :
              /\ state'[y].error \in {NoError, state[y].error}
              /\ reported'[y] = reported[y]]_vars

\* C40: when a mounted hook is rendered with another key, the state it exposes
\* for the new key is the initial one {isLoading: true, error: null, value:
\* null}; and the settling of a Mutate task that was issued under a previous
\* key leaves the state of the hook unchanged.
C40_FreshStateOnSwitch ==
  [][\A h \in Hooks :
       /\ (status[h] = "mounted" /\ hkey'[h] # hkey[h])
            => state'[h] = InitialState
       /\ \A i \in Tasks(h) :
            ( /\ status[h] = "mounted"
              /\ queueRef[h][i].key # hkey[h]
              /\ queueRef'[h][i].st \in Settled
              /\ queueRef[h][i].st \notin Settled )
            => state'[h] = state[h]]_vars

====
